---- MODULE Spec2Model ----
(***************************************************************************)
(* Model of the vanna client library (src/src/vanna/__init__.py).          *)
(*                                                                         *)
(* The state is the three process-wide session fields (api_key, __org,     *)
(* run_sql) together with an observation of the last operation the caller  *)
(* invoked: its name and arguments, the value it returned or the exception *)
(* it raised, the HTTP requests it posted, the pipeline stages it invoked   *)
(* and the answers typed at input() prompts.  The remote service, the      *)
(* database drivers, the environment and the terminal are outside the      *)
(* library: every response they can give is drawn from a small set.        *)
(*                                                                         *)
(* Python values are modelled as strings; None is the string "None",       *)
(* True/False are "True"/"False".                                          *)
(***************************************************************************)
EXTENDS Naturals, Sequences, FiniteSets

VARIABLES
    api_key,    \* vanna.api_key                      (line 63)
    org,        \* vanna.__org                        (line 77)
    run_sql,    \* vanna.run_sql                      (line 65)
    nconn,      \* number of driver connections opened so far (closure identity)
    op,         \* name of the last operation called
    arg,        \* its arguments
    ret,        \* its return value, <<>> when it raised
    exc,        \* the exception it propagated, "None" when it returned
    sent,       \* the HTTP requests it posted, in order, each with its answer
    calls,      \* the pipeline stages ask invoked, in order, with their outcome
    prompted    \* the answers read from input(), in order

session == <<api_key, org, run_sql>>
vars == <<api_key, org, run_sql, nconn, op, arg, ret, exc, sent, calls, prompted>>

\* ------------------------------------------------------------------ bounds
\* Driver connections opened in one behaviour (each successful connect_to_*
\* call binds a fresh closure).
MaxConnects == 2

\* ------------------------------------------------------------------ values
None == "None"
True == "True"
False == "False"

Keys == {"K1"}
EnvKeys == {None, "KENV"}
PlaceholderDataset == "my-dataset"
PlaceholderEmail == "my-email@example.com"
DemoOrg == "demo-tpc-h"
Datasets == {"D1", "D2"}
Bools == {True, False}

\* Python truthiness of an optional string (None and "" are falsy).
Truthy(x) == x \notin {None, ""}

\* str.lower() on the answers the prompt can receive.
Lower(s) == IF s = "Y" THEN "y" ELSE IF s = "N" THEN "n" ELSE s

\* What a remote call can do once the request is posted: fail (transport
\* error, non-JSON body, a result that does not fit the dataclass), answer
\* without a 'result' key, or answer with a result carrying val.
Resp(kind, val) == [kind |-> kind, val |-> val]
RespOf(vals) == {Resp("raise", None), Resp("noresult", None)} \cup {Resp("ok", v) : v \in vals}
StatusResps == RespOf(Bools)

\* ------------------------------------------------------------------ transport
\* A request posted, with the answer it got (resp).
Request(endpoint, method, key, o, data, resp) ==
    [endpoint |-> endpoint, method |-> method, key |-> key, org |-> o, data |-> data,
     resp |-> resp]

\* __rpc_call, lines 102-106: the two configuration checks.
RpcRaises_NoListOrgsExemption(key, o, method) == key = None \/ o = None
RpcRaises(key, o, method) ==
    key = None \/ (o = None /\ method # "list_orgs")

\* __rpc_call, lines 108-119: the Vanna-Org header.
RpcHeaderOrg(o, method) == IF method # "list_orgs" THEN o ELSE DemoOrg

\* __rpc_call as a whole: the outcome of one authenticated call.
\*   exc  : the exception it raises ("None" when it returns d)
\*   d    : the decoded response
\*   sent : the request posted, if any
RpcCall(key, o, method, data, resp) ==
    IF RpcRaises(key, o, method)
    THEN [exc |-> "ImproperlyConfigured", d |-> Resp("raise", None), sent |-> <<>>]
    ELSE [exc  |-> IF resp.kind = "raise" THEN "Error" ELSE None,
          d    |-> resp,
          sent |-> <<Request("rpc", method, key, RpcHeaderOrg(o, method), data, resp)>>]

\* __unauthenticated_rpc_call, lines 85-95.
UnauthenticatedRpcCall(method, data, resp) ==
    [exc  |-> IF resp.kind = "raise" THEN "Error" ELSE None,
     d    |-> resp,
     sent |-> <<Request("unauthenticated_rpc", method, None, None, data, resp)>>]

\* The outcome of an operation.
Outcome(e, r, s, c, p) == [exc |-> e, ret |-> r, sent |-> s, calls |-> c, prompted |-> p]
Returned(r, s) == Outcome(None, <<r>>, s, <<>>, <<>>)
Raised(e, s) == Outcome(e, <<>>, s, <<>>, <<>>)

StatusOp_TrueWithoutResult(key, o, method, data, resp) ==
    LET c == RpcCall(key, o, method, data, resp) IN
    IF c.exc # None THEN Raised(c.exc, c.sent)
    ELSE IF c.d.kind = "noresult" THEN Returned(True, c.sent)
    ELSE Returned(c.d.val, c.sent)

\* The operations that post one request and return the success flag of the
\* Status in the result, False without a result (add_sql, add_ddl, ...).
StatusOp(key, o, method, data, resp) ==
    LET c == RpcCall(key, o, method, data, resp) IN
    IF c.exc # None THEN Raised(c.exc, c.sent)
    ELSE IF c.d.kind = "noresult" THEN Returned(False, c.sent)
    ELSE Returned(c.d.val, c.sent)

PayloadOp_RaisesWithoutResult(key, o, method, data, resp) ==
    LET c == RpcCall(key, o, method, data, resp) IN
    IF c.exc # None THEN Raised(c.exc, c.sent)
    ELSE IF c.d.kind = "noresult" THEN Raised("KeyError", c.sent)
    ELSE Returned(c.d.val, c.sent)

\* The operations that post one request and return the payload of the
\* result, None without a result (generate_sql, generate_question, ...).
PayloadOp(key, o, method, data, resp) ==
    LET c == RpcCall(key, o, method, data, resp) IN
    IF c.exc # None THEN Raised(c.exc, c.sent)
    ELSE IF c.d.kind = "noresult" THEN Returned(None, c.sent)
    ELSE Returned(c.d.val, c.sent)

\* add_sql, lines 403-416.
add_sql(key, o, question, sql, tag, resp) ==
    StatusOp(key, o, "store_sql", <<question, sql, tag>>, resp)

\* add_ddl, lines 436-445.
add_ddl(key, o, ddl, resp) == StatusOp(key, o, "store_ddl", <<ddl>>, resp)

\* add_documentation, lines 465-474.
add_documentation(key, o, documentation, resp) ==
    StatusOp(key, o, "store_documentation", <<documentation>>, resp)

\* generate_question, lines 987-1002.
generate_question(key, o, sql, resp) ==
    PayloadOp(key, o, "generate_question", <<sql>>, resp)

\* generate_sql, lines 676-686.
generate_sql(key, o, question, resp) ==
    PayloadOp(key, o, "generate_sql_from_question", <<question>>, resp)

\* get_datasets, lines 225-232: the list of the user's datasets, [] without
\* a result.  The list is modelled as the set of its elements.
get_datasets(key, o, resp) ==
    LET c == RpcCall(key, o, "list_orgs", <<>>, resp) IN
    [exc |-> c.exc, sent |-> c.sent,
     list |-> IF c.exc = None /\ c.d.kind = "ok" THEN c.d.val ELSE {}]

\* The answers list_orgs can give: the result lists a set of datasets.
ListResps ==
    {[kind |-> "raise", val |-> {}], [kind |-> "noresult", val |-> {}]}
        \cup {[kind |-> "ok", val |-> l] : l \in SUBSET Datasets}

\* create_dataset, lines 251-267: the outcome and the active dataset after it.
create_dataset(key, o, dataset, db_type, resp) ==
    LET o1 == IF o = None THEN DemoOrg ELSE o
        c == RpcCall(key, o1, "create_org", <<dataset, db_type>>, resp)
    IN  IF c.exc # None THEN [out |-> Raised(c.exc, c.sent), org |-> o1]
        ELSE IF c.d.kind = "noresult" THEN [out |-> Returned(False, c.sent), org |-> o1]
        ELSE [out |-> Returned(c.d.val, c.sent),
              org |-> IF c.d.val = True THEN dataset ELSE o1]

\* _set_org, lines 349-355: the answer to "Would you like to create dataset"
\* has been read; create the dataset or leave.
SetOrgAnswered_AlwaysSets(key, o, orgname, create, db_type, createResp, s) ==
    [out |-> Outcome(None, <<None>>, s, <<>>, <<create>>), org |-> orgname]
SetOrgAnswered(key, o, orgname, create, db_type, createResp, s) ==
    IF Lower(create) = "y"
    THEN LET cd == create_dataset(key, o, orgname, db_type, createResp) IN
         IF cd.out.exc # None
         THEN [out |-> Outcome(cd.out.exc, <<>>, s \o cd.out.sent, <<>>, <<create, db_type>>),
               org |-> cd.org]
         ELSE IF cd.out.ret = <<True>>
         THEN [out |-> Outcome(None, <<None>>, s \o cd.out.sent, <<>>, <<create, db_type>>),
               org |-> orgname]
         ELSE [out |-> Outcome("ValidationError", <<>>, s \o cd.out.sent, <<>>, <<create, db_type>>),
               org |-> None]
    ELSE [out |-> Outcome(None, <<None>>, s, <<>>, <<create>>), org |-> o]

\* _set_org, lines 330-357.
SetOrg(key, o, orgname, listResp, checkResp, create, db_type, createResp) ==
    LET my == get_datasets(key, o, listResp) IN
    IF my.exc # None THEN [out |-> Raised(my.exc, my.sent), org |-> o]
    ELSE IF orgname \in my.list
    THEN [out |-> Returned(None, my.sent), org |-> orgname]
    ELSE LET c == UnauthenticatedRpcCall("check_org_exists", <<orgname, None, None>>, checkResp)
             s == my.sent \o c.sent
         IN  IF c.exc # None THEN [out |-> Raised(c.exc, s), org |-> o]
             ELSE IF c.d.kind = "noresult" THEN [out |-> Raised("ValidationError", s), org |-> o]
             ELSE IF c.d.val = True THEN [out |-> Raised("ValidationError", s), org |-> o]
             ELSE SetOrgAnswered(key, o, orgname, create, db_type, createResp, s)

\* set_dataset, lines 372-380.
set_dataset(key, o, dataset, env_dataset, listResp, checkResp, create, db_type, createResp) ==
    IF dataset = PlaceholderDataset /\ env_dataset = None
    THEN [out |-> Raised("ValidationError", <<>>), org |-> o]
    ELSE SetOrg(key, o, IF dataset = PlaceholderDataset THEN env_dataset ELSE dataset,
                listResp, checkResp, create, db_type, createResp)

get_api_key_IgnoresSendStatus(env_key, email, otp_code, sendResp, typed, verifyResp) ==
    IF env_key # None THEN Returned(env_key, <<>>)
    ELSE IF email = PlaceholderEmail THEN Raised("ValidationError", <<>>)
    ELSE
      LET send == UnauthenticatedRpcCall("send_otp", <<email>>, sendResp)
          s1 == IF otp_code = None THEN send.sent ELSE <<>>
          code == IF otp_code = None THEN typed ELSE otp_code
          p == IF otp_code = None THEN <<typed>> ELSE <<>>
          verify == UnauthenticatedRpcCall("verify_otp", <<email, code>>, verifyResp)
      IN  IF otp_code = None /\ send.exc # None THEN Raised(send.exc, s1)
          ELSE IF otp_code = None /\ send.d.kind = "noresult" THEN Raised("OtpCodeError", s1)
          ELSE IF verify.exc # None THEN Outcome(verify.exc, <<>>, s1 \o verify.sent, <<>>, p)
          ELSE IF verify.d.kind = "noresult"
          THEN Outcome("OtpCodeError", <<>>, s1 \o verify.sent, <<>>, p)
          ELSE Outcome(None, <<verify.d.val>>, s1 \o verify.sent, <<>>, p)

\* get_api_key, lines 150-187.  typed is what the user enters at the prompt.
get_api_key(env_key, email, otp_code, sendResp, typed, verifyResp) ==
    IF env_key # None THEN Returned(env_key, <<>>)
    ELSE IF email = PlaceholderEmail THEN Raised("ValidationError", <<>>)
    ELSE
      LET send == UnauthenticatedRpcCall("send_otp", <<email>>, sendResp)
          s1 == IF otp_code = None THEN send.sent ELSE <<>>
          code == IF otp_code = None THEN typed ELSE otp_code
          p == IF otp_code = None THEN <<typed>> ELSE <<>>
          verify == UnauthenticatedRpcCall("verify_otp", <<email, code>>, verifyResp)
      IN  IF otp_code = None /\ send.exc # None THEN Raised(send.exc, s1)
          ELSE IF otp_code = None /\ send.d.kind = "noresult" THEN Raised("OtpCodeError", s1)
          ELSE IF otp_code = None /\ send.d.val # True THEN Raised("OtpCodeError", s1)
          ELSE IF verify.exc # None THEN Outcome(verify.exc, <<>>, s1 \o verify.sent, <<>>, p)
          ELSE IF verify.d.kind = "noresult"
          THEN Outcome("OtpCodeError", <<>>, s1 \o verify.sent, <<>>, p)
          ELSE Outcome(None, <<verify.d.val>>, s1 \o verify.sent, <<>>, p)

\* set_api_key, lines 203-210, after the assignment of api_key.
set_api_key(key, o, listResp) ==
    LET my == get_datasets(key, o, listResp) IN
    IF my.exc # None THEN Raised(my.exc, my.sent)
    ELSE IF my.list = {} THEN Raised("ConnectionError", my.sent)
    ELSE Returned(None, my.sent)

\* ------------------------------------------------------------------ ask
Stages == <<"generate_sql", "run_sql", "store_sql", "generate_plotly_code",
            "get_plotly_figure", "generate_followup_questions">>

\* One invocation of a pipeline stage by ask, and how it ended.
StageCall(stage, out, val) == <<[stage |-> stage, out |-> out, val |-> val]>>

\* What the collaborators of one call of ask do: the answers of the remote
\* service (gen, store, code, fu), what the injected run_sql does (run:
\* raises, or returns None, an empty or a non-empty DataFrame), what the
\* execution of the generated Plotly code leaves in fig, and whether
\* fig.show() raises.  A stage that is not reached has the entry Skip.
Skip == "skip"
SkipResp == Resp(Skip, None)
Sqls == {"S1"}
DataFrames == {"DF0", "DF1"}
PlotlyCodes == {"CODE"}
Figures == {"FIG"}
FollowupLists == {"FU0", "FU1"}

\* len(df)
DfLen(df) == IF df = "DF1" THEN 1 ELSE 0

ScriptStoreReached(r) == r.run = "DF1" /\ r.at = True
ScriptCodeReached(r) ==
    /\ r.run \in DataFrames
    /\ (ScriptStoreReached(r) => r.store.kind # "raise")
ScriptFigReached(r) == ScriptCodeReached(r) /\ r.code.kind = "ok"
ScriptShowReached(r) == ScriptFigReached(r) /\ r.fig \in Figures /\ r.pr = True
ScriptFuReached(r) ==
    /\ ScriptFigReached(r) /\ r.fig # "raise" /\ r.gf = True
    /\ (r.pr = True => r.fig \in Figures /\ r.show = "ok")

AskScripts == {x : x \in
    {r \in [gen : RespOf(Sqls),
            run : {"raise", None, Skip} \cup DataFrames,
            store : StatusResps \cup {SkipResp},
            code : RespOf(PlotlyCodes) \cup {SkipResp},
            fig : {"raise", None, Skip} \cup Figures,
            show : {"raise", "ok", Skip},
            fu : RespOf(FollowupLists) \cup {SkipResp},
            pr : Bools, at : Bools, gf : Bools] :
        /\ (r.run = Skip) <=> (r.gen.kind = "raise")
        /\ (r.store = SkipResp) <=> ~ScriptStoreReached(r)
        /\ (r.code = SkipResp) <=> ~ScriptCodeReached(r)
        /\ (r.fig = Skip) <=> ~ScriptFigReached(r)
        /\ (r.show = Skip) <=> ~ScriptShowReached(r)
        /\ (r.fu = SkipResp) <=> ~ScriptFuReached(r)}}

\* ask, lines 780-782: query generation raised.
GenerateExcept_Reraise(s, c) == Outcome("Error", <<>>, s, c, <<>>)
GenerateExcept(s, c) == Outcome(None, <<None, None, None, None>>, s, c, <<>>)

\* ask, lines 827-829: the outer handler.
SqlExcept(sql, s, c) == Outcome(None, <<sql, None, None, None>>, s, c, <<>>)

\* ask, lines 821-825: the inner handler.
ChartExcept(sql, df, s, c) == Outcome(None, <<sql, df, None, None>>, s, c, <<>>)

\* get_plotly_figure, lines 891-902: exec of the code raises (always when the
\* code is None), or leaves no fig (None), or a figure.
get_plotly_figure(plotly_code, df, figOut) ==
    IF plotly_code = None THEN "raise" ELSE figOut

\* ask, lines 810-819.
AskFollowups(key, o, q, sql, df, fig, r, s, c) ==
    IF r.gf # True THEN Outcome(None, <<sql, df, fig, None>>, s, c, <<>>)
    ELSE LET f == PayloadOp(key, o, "generate_followup_questions", <<q, None, df>>, r.fu) IN
         IF f.exc # None
         THEN ChartExcept(sql, df, s \o f.sent,
                          c \o StageCall("generate_followup_questions", "raised", None))
         ELSE Outcome(None, <<sql, df, fig, f.ret[1]>>, s \o f.sent,
                      c \o StageCall("generate_followup_questions", "returned", f.ret[1]), <<>>)

\* ask, lines 804-825: the inner try block.
AskChart(key, o, q, sql, df, r, s, c) ==
    LET pc == PayloadOp(key, o, "generate_plotly_code", <<q, sql, df>>, r.code)
        s1 == s \o pc.sent
    IN  IF pc.exc # None
        THEN ChartExcept(sql, df, s1, c \o StageCall("generate_plotly_code", "raised", None))
        ELSE LET plotly_code == pc.ret[1]
                 c1 == c \o StageCall("generate_plotly_code", "returned", plotly_code)
                 fig == get_plotly_figure(plotly_code, df, r.fig)
             IN  IF fig = "raise"
                 THEN ChartExcept(sql, df, s1, c1 \o StageCall("get_plotly_figure", "raised", None))
                 ELSE LET c2 == c1 \o StageCall("get_plotly_figure", "returned", fig) IN
                      IF r.pr = True /\ (fig = None \/ r.show = "raise")
                      THEN ChartExcept(sql, df, s1, c2)
                      ELSE AskFollowups(key, o, q, sql, df, fig, r, s1, c2)

AskExecute_ContinuesAfterStoreRaised(key, o, q, sql, r, s, c) ==
    IF r.run = "raise"
    THEN SqlExcept(sql, s, c \o StageCall("run_sql", "raised", None))
    ELSE LET df == r.run
             c1 == c \o StageCall("run_sql", "returned", df)
         IN  IF df = None THEN SqlExcept(sql, s, c1)
             ELSE IF DfLen(df) > 0 /\ r.at = True
             THEN LET st == add_sql(key, o, q, sql, "SQL_RAN", r.store) IN
                  IF st.exc # None
                  THEN AskChart(key, o, q, sql, df, r,
                                s \o st.sent, c1 \o StageCall("store_sql", "raised", None))
                  ELSE AskChart(key, o, q, sql, df, r, s \o st.sent,
                                c1 \o StageCall("store_sql", "returned", st.ret[1]))
             ELSE AskChart(key, o, q, sql, df, r, s, c1)

\* ask, lines 791-829: the outer try block.
AskExecute(key, o, q, sql, r, s, c) ==
    IF r.run = "raise"
    THEN SqlExcept(sql, s, c \o StageCall("run_sql", "raised", None))
    ELSE LET df == r.run
             c1 == c \o StageCall("run_sql", "returned", df)
         IN  IF df = None THEN SqlExcept(sql, s, c1)
             ELSE IF DfLen(df) > 0 /\ r.at = True
             THEN LET st == add_sql(key, o, q, sql, "SQL_RAN", r.store) IN
                  IF st.exc # None
                  THEN SqlExcept(sql, s \o st.sent, c1 \o StageCall("store_sql", "raised", None))
                  ELSE AskChart(key, o, q, sql, df, r, s \o st.sent,
                                c1 \o StageCall("store_sql", "returned", st.ret[1]))
             ELSE AskChart(key, o, q, sql, df, r, s, c1)

ask_IgnoresUnsetRunSql(key, o, rs, q, r) ==
    LET g == generate_sql(key, o, q, r.gen) IN
    IF g.exc # None
    THEN GenerateExcept(g.sent, StageCall("generate_sql", "raised", None))
    ELSE LET sql == g.ret[1]
             c == StageCall("generate_sql", "returned", sql)
         IN  AskExecute(key, o, q, sql, r, g.sent, c)

\* ask, lines 778-829, once it has a question.
ask(key, o, rs, q, r) ==
    LET g == generate_sql(key, o, q, r.gen) IN
    IF g.exc # None
    THEN GenerateExcept(g.sent, StageCall("generate_sql", "raised", None))
    ELSE LET sql == g.ret[1]
             c == StageCall("generate_sql", "returned", sql)
         IN  IF rs.kind = None THEN Outcome(None, <<sql, None, None, None>>, g.sent, c, <<>>)
             ELSE AskExecute(key, o, q, sql, r, g.sent, c)

\* ------------------------------------------------------------------ train
Questions == {"Q1"}
GeneratedQuestions == {"Q1", "Q2"}
ExampleQuestion == "What is the average salary of employees?"

\* Entries of the JSON file given to train (bound of the model).
MaxFileEntries == 1

\* ask(question=example_question) is called with the default flags.
DefaultAskScripts ==
    {x : x \in {r \in AskScripts : r.pr = True /\ r.at = True /\ r.gf = True}}

\* The sequences of at most n answers of store_sql.
RECURSIVE StoreRespSeqs(_)
StoreRespSeqs(n) ==
    IF n = 0 THEN {<<>>}
    ELSE LET shorter == StoreRespSeqs(n - 1) IN
         shorter \cup {Append(q, x) : q \in {y \in shorter : Len(y) = n - 1}, x \in StatusResps}

\* train, lines 521-522: add_sql for each entry of the JSON file; the first
\* call that raises ends the loop (and train).
RECURSIVE TrainJsonLoop(_, _, _, _)
TrainJsonLoop(key, o, resps, s) ==
    IF resps = <<>> THEN Outcome(None, <<None>>, s, <<>>, <<>>)
    ELSE LET a == add_sql(key, o, "JQ", "JA", "Manually Trained", Head(resps)) IN
         IF a.exc # None THEN Raised(a.exc, s \o a.sent)
         ELSE TrainJsonLoop(key, o, Tail(resps), s \o a.sent)

\* train, lines 524-541: the first statement of the SQL file decides.
TrainSqlFile(key, o, t, s) ==
    IF t.svalid # True THEN Raised("Error", s)
    ELSE IF t.stmt = "none" THEN Outcome(None, <<None>>, s, <<>>, <<>>)
    ELSE IF t.stmt = "ddl"
    THEN LET a == add_ddl(key, o, "CREATE TABLE T", t.store) IN
         Outcome(a.exc, a.ret, s \o a.sent, <<>>, <<>>)
    ELSE LET g == generate_question(key, o, "STMT", t.gq) IN
         IF g.exc # None THEN Raised(g.exc, s \o g.sent)
         ELSE LET a == add_sql(key, o, g.ret[1], "STMT", "Manually Trained", t.store) IN
              Outcome(a.exc, a.ret, s \o g.sent \o a.sent, <<>>, <<>>)

\* train, lines 516-541: the file arguments.
TrainFiles(key, o, json_file, sql_file, t) ==
    LET j == IF ~Truthy(json_file) THEN Outcome(None, <<None>>, <<>>, <<>>, <<>>)
             ELSE IF t.jvalid # True THEN Raised("Error", <<>>)
             ELSE TrainJsonLoop(key, o, t.jdata, <<>>)
    IN  IF j.exc # None THEN j
        ELSE IF Truthy(sql_file) THEN TrainSqlFile(key, o, t, j.sent)
        ELSE j

\* train, lines 504-510: the sql argument is given.
TrainSql(key, o, question, sql, documentation, t) ==
    IF documentation = True THEN add_documentation(key, o, sql, t.store)
    ELSE LET g == generate_question(key, o, sql, t.gq) IN
         IF g.exc # None THEN g
         ELSE LET a == add_sql(key, o, g.ret[1], sql, "Manually Trained", t.store) IN
              Outcome(a.exc, a.ret, g.sent \o a.sent, <<>>, <<>>)

\* train, lines 512-514: the ddl argument is given (and sql is not).
TrainDdl(key, o, sql, ddl, t) == add_ddl(key, o, sql, t.store)

\* train, lines 499-541.
train(key, o, rs, a, t) ==
    IF Truthy(a.question) /\ ~Truthy(a.sql)
    THEN LET r == ask(key, o, rs, ExampleQuestion, t.ask) IN
         Outcome("ValidationError", <<>>, r.sent, r.calls, <<>>)
    ELSE IF Truthy(a.sql) THEN TrainSql(key, o, a.question, a.sql, a.documentation, t)
    ELSE IF Truthy(a.ddl) THEN TrainDdl(key, o, a.sql, a.ddl, t)
    ELSE TrainFiles(key, o, a.json_file, a.sql_file, t)

\* The arguments train is called with.
TrainArgs ==
    {[question |-> q, sql |-> s, ddl |-> d, documentation |-> doc,
      json_file |-> None, sql_file |-> None] :
        q \in {None, ""} \cup Questions, s \in {None, ""} \cup Sqls,
        d \in {None, "DDL1"}, doc \in Bools}
    \cup {[question |-> None, sql |-> None, ddl |-> None, documentation |-> False,
           json_file |-> j, sql_file |-> f] : j \in {None, "J"}, f \in {None, "F"}}

\* What the collaborators of one call of train(a) do; Skip where not reached.
TrainScript(r, gq, store, jvalid, jdata, svalid, stmt) ==
    [ask |-> r, gq |-> gq, store |-> store, jvalid |-> jvalid, jdata |-> jdata,
     svalid |-> svalid, stmt |-> stmt]
NoAsk == CHOOSE r \in AskScripts : r.gen.kind = "raise" /\ r.pr = True /\ r.at = True /\ r.gf = True
GqStore == {<<g, st>> \in (RespOf(GeneratedQuestions) \X (StatusResps \cup {SkipResp})) :
               (st = SkipResp) <=> (g.kind = "raise")}
TrainSqlFileScripts ==
    {<<False, Skip, SkipResp, SkipResp>>, <<True, "none", SkipResp, SkipResp>>}
    \cup {<<True, "ddl", SkipResp, st>> : st \in StatusResps}
    \cup {<<True, "sql", gs[1], gs[2]>> : gs \in GqStore}
TrainJsonScripts ==
    {<<False, <<>>, FALSE>>} \cup
    {<<True, d, \A i \in 1..Len(d) : d[i].kind # "raise">> : d \in StoreRespSeqs(MaxFileEntries)}
TrainScripts(a) ==
    IF Truthy(a.question) /\ ~Truthy(a.sql)
    THEN {TrainScript(r, SkipResp, SkipResp, Skip, <<>>, Skip, Skip) : r \in DefaultAskScripts}
    ELSE IF Truthy(a.sql) /\ a.documentation = True
    THEN {TrainScript(NoAsk, SkipResp, st, Skip, <<>>, Skip, Skip) : st \in StatusResps}
    ELSE IF Truthy(a.sql)
    THEN {TrainScript(NoAsk, gs[1], gs[2], Skip, <<>>, Skip, Skip) : gs \in GqStore}
    ELSE IF Truthy(a.ddl)
    THEN {TrainScript(NoAsk, SkipResp, st, Skip, <<>>, Skip, Skip) : st \in StatusResps}
    ELSE LET js == IF Truthy(a.json_file) THEN TrainJsonScripts ELSE {<<Skip, <<>>, TRUE>>}
         IN  {TrainScript(NoAsk, f[3], f[4], j[1], j[2], f[1], f[2]) :
                 <<j, f>> \in {x \in js \X (TrainSqlFileScripts \cup {<<Skip, Skip, SkipResp, SkipResp>>}) :
                     (x[2][1] = Skip) <=> ~(x[1][3] /\ Truthy(a.sql_file))}}

\* ------------------------------------------------------------------ connectors
NoRunSql == [kind |-> None, id |-> 0]
UserRunSql == [kind |-> "user", id |-> 0]

\* `x or os.getenv(...)`: the argument when it is truthy, else the environment.
Resolve(x, e) == IF Truthy(x) THEN x ELSE e

\* A connector call: the exception it raises, and whether it binds run_sql.
Connected == [exc |-> None, bind |-> TRUE]
ConnectRaised_BindsFirst(e) == [exc |-> e, bind |-> TRUE]
ConnectRaised(e) == [exc |-> e, bind |-> FALSE]

\* connect_to_snowflake, lines 1086-1148.  The placeholders fall back on the
\* environment.  Whether the connect call of line 1124 succeeds is the
\* driver's business (connOk).
SnowflakeSetting(x, placeholder, e) == IF x = placeholder THEN e ELSE x
connect_to_snowflake(dep, a, env, connOk) ==
    IF ~dep THEN ConnectRaised("DependencyError")
    ELSE IF SnowflakeSetting(a.username, "my-username", env) = None
    THEN ConnectRaised("ImproperlyConfigured")
    ELSE IF SnowflakeSetting(a.password, "my-password", env) = None
    THEN ConnectRaised("ImproperlyConfigured")
    ELSE IF SnowflakeSetting(a.account, "my-account", env) = None
    THEN ConnectRaised("ImproperlyConfigured")
    ELSE IF SnowflakeSetting(a.database, "my-database", env) = None
    THEN ConnectRaised("ImproperlyConfigured")
    ELSE IF ~connOk THEN ConnectRaised("Error")
    ELSE Connected

\* connect_to_bigquery, lines 1170-1213.
connect_to_bigquery(dep, project_id, env, validOk, credsOk, clientOk) ==
    IF ~dep THEN ConnectRaised("DependencyError")
    ELSE IF ~Truthy(Resolve(project_id, env)) THEN ConnectRaised("ImproperlyConfigured")
    ELSE IF ~validOk THEN ConnectRaised("Error")
    ELSE IF ~credsOk THEN ConnectRaised("Error")
    ELSE IF ~clientOk THEN ConnectRaised("ImproperlyConfigured")
    ELSE Connected

\* connect_to_postgres, lines 1242-1307.
connect_to_postgres(dep, a, env, connOk) ==
    IF ~dep THEN ConnectRaised("DependencyError")
    ELSE IF ~Truthy(Resolve(a.host, env)) THEN ConnectRaised("ImproperlyConfigured")
    ELSE IF ~Truthy(Resolve(a.dbname, env)) THEN ConnectRaised("ImproperlyConfigured")
    ELSE IF ~Truthy(Resolve(a.user, env)) THEN ConnectRaised("ImproperlyConfigured")
    ELSE IF ~Truthy(Resolve(a.password, env)) THEN ConnectRaised("ImproperlyConfigured")
    ELSE IF ~Truthy(Resolve(a.port, env)) THEN ConnectRaised("ImproperlyConfigured")
    ELSE IF ~connOk THEN ConnectRaised("ValidationError")
    ELSE Connected

\* ------------------------------------------------------------------ state
Init ==
    /\ api_key = None
    /\ org = None
    /\ run_sql = NoRunSql
    /\ nconn = 0
    /\ op = "idle"
    /\ arg = <<>>
    /\ ret = <<>>
    /\ exc = None
    /\ sent = <<>>
    /\ calls = <<>>
    /\ prompted = <<>>

\* The observation of one call.
Observe(name, a, out) ==
    /\ op' = name
    /\ arg' = a
    /\ ret' = out.ret
    /\ exc' = out.exc
    /\ sent' = out.sent
    /\ calls' = out.calls
    /\ prompted' = out.prompted

\* A call of an operation that assigns none of the module globals.
Call(name, a, out) == Observe(name, a, out) /\ UNCHANGED <<api_key, org, run_sql, nconn>>

\* The library keeps nothing of a call but the module globals (lines 63-77):
\* the caller takes the result, and the next call starts from the session.
Discard ==
    /\ op # "idle"
    /\ op' = "idle" /\ arg' = <<>> /\ ret' = <<>> /\ exc' = None
    /\ sent' = <<>> /\ calls' = <<>> /\ prompted' = <<>>
    /\ UNCHANGED <<api_key, org, run_sql, nconn>>

\* ------------------------------------------------------------------ session
GetApiKey_InstallsKey ==
    /\ op = "idle"
    /\ \E env_key \in EnvKeys, email \in {PlaceholderEmail, "E1"}, otp_code \in {None, "OTP1"},
          sendResp \in StatusResps, verifyResp \in RespOf(Keys) :
          LET out == get_api_key(env_key, email, otp_code, sendResp, "OTP2", verifyResp) IN
          /\ Observe("get_api_key", <<email, otp_code, env_key>>, out)
          /\ api_key' = IF out.exc = None THEN out.ret[1] ELSE api_key
    /\ UNCHANGED <<org, run_sql, nconn>>

\* get_api_key(email, otp_code): api_key is a local of the function (line 185).
GetApiKey ==
    /\ op = "idle"
    /\ \E env_key \in EnvKeys, email \in {PlaceholderEmail, "E1"}, otp_code \in {None, "OTP1"},
          sendResp \in StatusResps, verifyResp \in RespOf(Keys) :
          Call("get_api_key", <<email, otp_code, env_key>>,
               get_api_key(env_key, email, otp_code, sendResp, "OTP2", verifyResp))

\* set_api_key(key): the global is assigned before get_datasets is called.
SetApiKey ==
    /\ op = "idle"
    /\ \E key \in Keys, listResp \in ListResps :
          /\ api_key' = key
          /\ Observe("set_api_key", <<key>>, set_api_key(key, org, listResp))
    /\ UNCHANGED <<org, run_sql, nconn>>

GetDatasets ==
    /\ op = "idle"
    /\ \E listResp \in ListResps :
          LET my == get_datasets(api_key, org, listResp) IN
          Call("get_datasets", <<>>,
               IF my.exc # None THEN Raised(my.exc, my.sent)
               ELSE Outcome(None, <<my.list>>, my.sent, <<>>, <<>>))

CreateDataset ==
    /\ op = "idle"
    /\ \E dataset \in Datasets, resp \in StatusResps :
          LET cd == create_dataset(api_key, org, dataset, "postgres", resp) IN
          /\ Observe("create_dataset", <<dataset, "postgres">>, cd.out)
          /\ org' = cd.org
    /\ UNCHANGED <<api_key, run_sql, nconn>>

SetDataset ==
    /\ op = "idle"
    /\ \E dataset \in Datasets \cup {PlaceholderDataset}, env_dataset \in {None, "D1"},
          listResp \in ListResps, checkResp \in StatusResps, create \in {"y", "Y", "n"},
          createResp \in StatusResps :
          LET sd == set_dataset(api_key, org, dataset, env_dataset, listResp, checkResp,
                                create, "postgres", createResp) IN
          /\ Observe("set_dataset", <<dataset, env_dataset>>, sd.out)
          /\ org' = sd.org
    /\ UNCHANGED <<api_key, run_sql, nconn>>

\* vn.run_sql = f (lines 65-75): the caller injects the function.
AssignRunSql ==
    /\ op = "idle"
    /\ run_sql' = UserRunSql
    /\ Observe("assign_run_sql", <<>>, Returned(None, <<>>))
    /\ UNCHANGED <<api_key, org, nconn>>

\* ------------------------------------------------------------------ training
AddSql ==
    /\ op = "idle"
    /\ \E q \in Questions, sql \in Sqls, resp \in StatusResps :
          Call("add_sql", <<q, sql>>, add_sql(api_key, org, q, sql, "Manually Trained", resp))

AddDdl ==
    /\ op = "idle"
    /\ \E resp \in StatusResps :
          Call("add_ddl", <<"DDL1">>, add_ddl(api_key, org, "DDL1", resp))

AddDocumentation ==
    /\ op = "idle"
    /\ \E resp \in StatusResps :
          Call("add_documentation", <<"DOC1">>, add_documentation(api_key, org, "DOC1", resp))

Train ==
    /\ op = "idle"
    /\ \E a \in TrainArgs : \E t \in TrainScripts(a) :
          Call("train", <<a.question, a.sql, a.ddl, a.documentation, a.json_file, a.sql_file>>,
               train(api_key, org, run_sql, a, t))

\* The operations that post one request and raise unless the Status in the
\* result reports success (remove_sql, remove_training_data).
RemoveOp(key, o, method, data, resp, error) ==
    LET c == RpcCall(key, o, method, data, resp) IN
    IF c.exc # None THEN Raised(c.exc, c.sent)
    ELSE IF c.d.kind = "noresult" THEN Raised(error, c.sent)
    ELSE IF c.d.val # True THEN Raised(error, c.sent)
    ELSE Returned(True, c.sent)

\* ------------------------------------------------------------------ single requests
AddUserToDataset ==
    /\ op = "idle"
    /\ \E dataset \in Datasets, is_admin \in Bools, resp \in StatusResps :
          Call("add_user_to_dataset", <<dataset, "E2", is_admin>>,
               StatusOp(api_key, org, "add_user_to_org", <<dataset, "E2", is_admin>>, resp))

UpdateDatasetVisibility ==
    /\ op = "idle"
    /\ \E public \in Bools, resp \in StatusResps :
          Call("update_dataset_visibility", <<public>>,
               StatusOp(api_key, org, "set_org_visibility", <<public>>, resp))

FlagSqlForReview ==
    /\ op = "idle"
    /\ \E q \in Questions, resp \in StatusResps :
          Call("flag_sql_for_review", <<q>>,
               StatusOp(api_key, org, "set_accuracy_category", <<q, "FLAGGED_FOR_REVIEW">>, resp))

RemoveSql ==
    /\ op = "idle"
    /\ \E q \in Questions, resp \in StatusResps :
          Call("remove_sql", <<q>>,
               RemoveOp(api_key, org, "remove_sql", <<q>>, resp, "SQLRemoveError"))

RemoveTrainingData ==
    /\ op = "idle"
    /\ \E resp \in StatusResps :
          Call("remove_training_data", <<"1-ddl">>,
               RemoveOp(api_key, org, "remove_training_data", <<"1-ddl">>, resp, "Exception"))

GenerateSql ==
    /\ op = "idle"
    /\ \E q \in Questions, resp \in RespOf(Sqls) :
          Call("generate_sql", <<q>>, generate_sql(api_key, org, q, resp))

GenerateFollowupQuestions ==
    /\ op = "idle"
    /\ \E q \in Questions, df \in DataFrames, resp \in RespOf(FollowupLists) :
          Call("generate_followup_questions", <<q, df>>,
               PayloadOp(api_key, org, "generate_followup_questions", <<q, None, df>>, resp))

GenerateQuestions ==
    /\ op = "idle"
    /\ \E resp \in RespOf(FollowupLists) :
          Call("generate_questions", <<>>,
               PayloadOp(api_key, org, "generate_questions", <<>>, resp))

GeneratePlotlyCode ==
    /\ op = "idle"
    /\ \E q \in Questions, sql \in Sqls, df \in DataFrames, resp \in RespOf(PlotlyCodes) :
          Call("generate_plotly_code", <<q, sql, df>>,
               PayloadOp(api_key, org, "generate_plotly_code", <<q, sql, df>>, resp))

GenerateExplanation ==
    /\ op = "idle"
    /\ \E sql \in Sqls, resp \in RespOf({"EXPL"}) :
          Call("generate_explanation", <<sql>>,
               PayloadOp(api_key, org, "generate_explanation", <<sql>>, resp))

GenerateQuestion ==
    /\ op = "idle"
    /\ \E sql \in Sqls, resp \in RespOf(GeneratedQuestions) :
          Call("generate_question", <<sql>>, generate_question(api_key, org, sql, resp))

\* ------------------------------------------------------------------ asking
Ask_ClearsDatasetOnFailure ==
    /\ op = "idle"
    /\ \E q \in {None} \cup Questions, r \in AskScripts :
          LET question == IF q = None THEN "Q2" ELSE q
              out == ask(api_key, org, run_sql, question, r)
          IN  /\ Observe("ask", <<q, r.pr, r.at, r.gf>>,
                         [out EXCEPT !.prompted = IF q = None THEN <<question>> ELSE <<>>])
              /\ org' = IF out.ret[1] = None THEN None ELSE org
    /\ UNCHANGED <<api_key, run_sql, nconn>>

\* ask(question, print_results, auto_train, generate_followups); a question of
\* None is read from the prompt (lines 775-776).
Ask ==
    /\ op = "idle"
    /\ \E q \in {None} \cup Questions, r \in AskScripts :
          LET question == IF q = None THEN "Q2" ELSE q
              out == ask(api_key, org, run_sql, question, r)
          IN  Call("ask", <<q, r.pr, r.at, r.gf>>,
                   [out EXCEPT !.prompted = IF q = None THEN <<question>> ELSE <<>>])

GetAllQuestions ==
    /\ op = "idle"
    /\ \E resp \in RespOf({"DF1"}) :
          Call("get_all_questions", <<>>, PayloadOp(api_key, org, "get_all_questions", <<>>, resp))

GetTrainingData ==
    /\ op = "idle"
    /\ \E resp \in RespOf({"DF1"}) :
          Call("get_training_data", <<>>, PayloadOp(api_key, org, "get_training_data", <<>>, resp))

\* ------------------------------------------------------------------ connecting
\* The end of a connector call: run_sql is bound to a fresh closure when the
\* call got that far (lines 1147-1148, 1212-1213, 1306-1307).
Connect(name, a, kind, c) ==
    /\ c.bind => nconn < MaxConnects
    /\ Observe(name, a, IF c.exc = None THEN Returned(None, <<>>) ELSE Raised(c.exc, <<>>))
    /\ run_sql' = IF c.bind THEN [kind |-> kind, id |-> nconn + 1] ELSE run_sql
    /\ nconn' = IF c.bind THEN nconn + 1 ELSE nconn
    /\ UNCHANGED <<api_key, org>>

ConnectToSnowflake ==
    /\ op = "idle"
    /\ \E dep \in BOOLEAN, connOk \in BOOLEAN, env \in {None, "e"},
          a \in [username : {"my-username", "u"}, password : {"my-password", "p"},
                 account : {"my-account", "a"}, database : {"my-database", "d"}] :
          Connect("connect_to_snowflake", <<a.account, a.username, a.password, a.database>>,
                  "snowflake", connect_to_snowflake(dep, a, env, connOk))

ConnectToBigquery ==
    /\ op = "idle"
    /\ \E dep \in BOOLEAN, project_id \in {None, "p"}, env \in {None, "e"},
          validOk \in BOOLEAN, credsOk \in BOOLEAN, clientOk \in BOOLEAN :
          Connect("connect_to_bigquery", <<"cred.json", project_id>>, "bigquery",
                  connect_to_bigquery(dep, project_id, env, validOk, credsOk, clientOk))

ConnectToPostgres ==
    /\ op = "idle"
    /\ \E dep \in BOOLEAN, connOk \in BOOLEAN, env \in {None, "e"},
          a \in [host : {None, "h"}, dbname : {None, "d"}, user : {None, "u"},
                 password : {None, "p"}, port : {None, "5432"}] :
          Connect("connect_to_postgres", <<a.host, a.dbname, a.user, a.password, a.port>>,
                  "postgres", connect_to_postgres(dep, a, env, connOk))

Next ==
    \/ Discard
    \/ GetApiKey
    \/ SetApiKey
    \/ GetDatasets
    \/ CreateDataset
    \/ SetDataset
    \/ AssignRunSql
    \/ AddSql
    \/ AddDdl
    \/ AddDocumentation
    \/ AddUserToDataset
    \/ UpdateDatasetVisibility
    \/ FlagSqlForReview
    \/ RemoveSql
    \/ RemoveTrainingData
    \/ GenerateSql
    \/ GenerateFollowupQuestions
    \/ GenerateQuestions
    \/ GeneratePlotlyCode
    \/ GenerateExplanation
    \/ GenerateQuestion
    \/ Train
    \/ Ask
    \/ GetAllQuestions
    \/ GetTrainingData
    \/ ConnectToSnowflake
    \/ ConnectToBigquery
    \/ ConnectToPostgres

Spec == Init /\ [][Next]_vars

\* ------------------------------------------------------------------ properties
\* The position of a stage in the pipeline.
StageIndex(stage) == CHOOSE i \in DOMAIN Stages : Stages[i] = stage

\* The stage was invoked by the last call.
StageInvoked(stage) == \E i \in DOMAIN calls : calls[i].stage = stage

\* C1: once it has a question, ask never propagates an exception: whatever
\* the session holds and whichever stages fail, it returns a 4-tuple.
C1_AskNeverRaises == op = "ask" => exc = None /\ Len(ret) = 4

\* C1 witness: ask returned although its last stage, follow-up generation, raised.
C1_Witness ==
    /\ op = "ask" /\ exc = None /\ Len(ret) = 4
    /\ Len(calls) = 6 /\ calls[6].out = "raised"

\* C2: every element of the tuple ask returns is the output of its own stage
\* whenever that stage completed: the SQL generated, the DataFrame run_sql
\* returned (also when auto-training failed afterwards), the figure rendered
\* (also when follow-up generation failed afterwards), the follow-ups.
C2_PartialResults ==
    op = "ask" =>
        \A i \in DOMAIN calls :
            calls[i].out = "returned" =>
                /\ calls[i].stage = "generate_sql" => ret[1] = calls[i].val
                /\ calls[i].stage = "run_sql" => ret[2] = calls[i].val
                /\ (calls[i].stage = "get_plotly_figure"
                        /\ StageInvoked("generate_followup_questions")) => ret[3] = calls[i].val
                /\ calls[i].stage = "generate_followup_questions" => ret[4] = calls[i].val

\* C3: the stages of one call of ask run in pipeline order, none twice, none
\* after a stage that raised, and no remote method is requested twice.
C3_StageOrder ==
    op = "ask" =>
        /\ \A i, j \in DOMAIN calls :
              i < j => /\ StageIndex(calls[i].stage) < StageIndex(calls[j].stage)
                       /\ calls[i].out = "returned"
        /\ \A i, j \in DOMAIN sent : i < j => sent[i].method # sent[j].method

\* C3 witness: all six stages ran, the auto-training request included.
C3_Witness ==
    /\ op = "ask" /\ Len(calls) = 6
    /\ \A i \in 1..6 : calls[i].stage = Stages[i] /\ calls[i].out = "returned"

\* The operations that are one authenticated request, and its method.
AuthMethod ==
    [get_datasets |-> "list_orgs", add_sql |-> "store_sql", add_ddl |-> "store_ddl",
     add_documentation |-> "store_documentation", add_user_to_dataset |-> "add_user_to_org",
     update_dataset_visibility |-> "set_org_visibility",
     remove_sql |-> "remove_sql", remove_training_data |-> "remove_training_data",
     generate_sql |-> "generate_sql_from_question",
     generate_followup_questions |-> "generate_followup_questions",
     generate_questions |-> "generate_questions", generate_plotly_code |-> "generate_plotly_code",
     generate_explanation |-> "generate_explanation", generate_question |-> "generate_question",
     get_all_questions |-> "get_all_questions", get_training_data |-> "get_training_data"]

\* C4: an authenticated operation raises ImproperlyConfigured and posts
\* nothing exactly when the API key is unset, or the dataset is unset and the
\* operation is not get_datasets; otherwise its request is posted, with the
\* session's key.
C4_SetBeforeUse ==
    op \in DOMAIN AuthMethod =>
        LET unset == api_key = None \/ (org = None /\ op # "get_datasets") IN
        /\ unset <=> (exc = "ImproperlyConfigured" /\ sent = <<>>)
        /\ ~unset => /\ Len(sent) = 1
                     /\ sent[1].method = AuthMethod[op]
                     /\ sent[1].key = api_key
                     /\ op # "get_datasets" => sent[1].org = org

\* C4 witness: get_datasets answered with an API key and no dataset.
C4_Witness ==
    /\ op = "get_datasets" /\ api_key # None /\ org = None
    /\ exc = None /\ Len(sent) = 1

\* The caller answered the creation prompt of set_dataset with something
\* other than y.
Declined == prompted # <<>> /\ Lower(prompted[1]) # "y"

\* C5 (as claimed): whenever set_dataset(d) returns normally, d not the
\* placeholder, the active dataset is d.
C5_SetDatasetSetsDataset ==
    (op = "set_dataset" /\ exc = None /\ arg[1] # PlaceholderDataset) => org = arg[1]

\* C5 (amended): whenever set_dataset(d) returns normally, d not the
\* placeholder, the active dataset is d, unless the caller declined to create
\* the dataset at the prompt: then the active dataset is what it was.
C5_SetDatasetUnlessDeclined ==
    [][(op' = "set_dataset" /\ exc' = None /\ arg'[1] # PlaceholderDataset) =>
          IF Declined' THEN org' = org ELSE org' = arg'[1]]_vars

\* C5 witness: set_dataset created the dataset and made it the active one.
C5_Witness ==
    /\ op = "set_dataset" /\ exc = None /\ arg[1] # PlaceholderDataset
    /\ Len(prompted) = 2 /\ Lower(prompted[1]) = "y"
    /\ \E i \in DOMAIN sent : sent[i].method = "create_org"
    /\ org = arg[1]

Connectors ==
    [connect_to_snowflake |-> "snowflake", connect_to_bigquery |-> "bigquery",
     connect_to_postgres |-> "postgres"]

\* C6: a connector call that returns binds run_sql to a new closure of that
\* connector; a connector call that raises leaves run_sql as it was.
C6_ConnectorBindsOnSuccessOnly ==
    [][op' \in DOMAIN Connectors =>
          IF exc' = None
          THEN run_sql'.kind = Connectors[op'] /\ run_sql' # run_sql /\ run_sql'.id > nconn
          ELSE run_sql' = run_sql]_vars

\* C6 witness: connect_to_postgres failed to connect and the closure an
\* earlier connect_to_bigquery bound is still in place.
C6_Witness ==
    /\ op = "connect_to_postgres" /\ exc = "ValidationError"
    /\ run_sql.kind = "bigquery"

\* C7: a call of ask leaves the API key, the dataset and run_sql as they were.
C7_AskKeepsSession ==
    [][op' = "ask" => api_key' = api_key /\ org' = org /\ run_sql' = run_sql]_vars

\* C7 witness: ask ran with a full session and a stage of it failed.
C7_Witness ==
    /\ op = "ask" /\ api_key # None /\ org # None /\ run_sql # NoRunSql
    /\ \E i \in DOMAIN calls : calls[i].out = "raised"

GetOps == {"get_api_key", "get_datasets", "get_all_questions", "get_training_data"}

\* C8: the get_ operations leave the session as it was; get_api_key returns
\* the key without installing it, so that the key stays unset, and every
\* authenticated operation raises ImproperlyConfigured, until set_api_key.
C8_GetIsReadOnly ==
    [][/\ op' \in GetOps => api_key' = api_key /\ org' = org /\ run_sql' = run_sql
       /\ (api_key = None /\ op' # "set_api_key") => api_key' = None
       /\ (api_key = None /\ op' \in DOMAIN AuthMethod) => exc' = "ImproperlyConfigured"]_vars

\* C8 witness: get_api_key returned a key and the session has none.
C8_Witness ==
    /\ op = "get_api_key" /\ exc = None /\ ret = <<"K1">>
    /\ api_key = None

\* C9: train(question=q, sql=s), both non-empty, when it returns, has posted
\* one store_sql request carrying q and s, as add_sql(q, s) does.
C9_TrainIsAddSql ==
    (/\ op = "train" /\ Truthy(arg[1]) /\ Truthy(arg[2]) /\ arg[4] = False
     /\ api_key # None /\ org # None /\ exc = None) =>
        /\ Len(sent) = 1
        /\ sent[1].method = "store_sql"
        /\ sent[1].data = <<arg[1], arg[2], "Manually Trained">>

\* C10: train(ddl=x) without question and sql, when it returns, has posted
\* one store_ddl request carrying x, as add_ddl(x) does.
C10_TrainAddsDdl ==
    (/\ op = "train" /\ ~Truthy(arg[1]) /\ ~Truthy(arg[2]) /\ Truthy(arg[3])
     /\ api_key # None /\ org # None /\ exc = None) =>
        /\ Len(sent) = 1
        /\ sent[1].method = "store_ddl"
        /\ sent[1].data = <<arg[3]>>

StatusOps ==
    {"add_sql", "add_ddl", "add_documentation", "add_user_to_dataset",
     "update_dataset_visibility", "flag_sql_for_review", "create_dataset"}

\* C11: a status-returning operation that got a response returns, without
\* raising, True exactly when the response has a result whose status reports
\* success, and False when it has no result or reports failure.
C11_StatusIsSuccessFlag ==
    (op \in StatusOps /\ sent # <<>> /\ sent[1].resp.kind # "raise") =>
        /\ exc = None
        /\ Len(sent) = 1
        /\ ret = <<IF sent[1].resp.kind = "ok" /\ sent[1].resp.val = True
                   THEN True ELSE False>>

\* C11 witness: add_user_to_dataset got a response without a result and
\* returned False.
C11_Witness ==
    /\ op = "add_user_to_dataset" /\ Len(sent) = 1
    /\ sent[1].resp.kind = "noresult"
    /\ exc = None /\ ret = <<False>>

PayloadOps ==
    {"generate_sql", "generate_followup_questions", "generate_questions",
     "generate_plotly_code", "generate_explanation", "generate_question",
     "get_all_questions", "get_training_data"}

\* C12: a generating or listing operation that got a response without a
\* result returns None, without raising, and otherwise returns the payload
\* of the result; get_datasets returns the empty list without a result.
C12_PayloadOrNone ==
    /\ (op \in PayloadOps /\ sent # <<>> /\ sent[1].resp.kind # "raise") =>
          /\ exc = None
          /\ Len(sent) = 1
          /\ ret = <<IF sent[1].resp.kind = "noresult" THEN None ELSE sent[1].resp.val>>
    /\ (op = "get_datasets" /\ sent # <<>> /\ sent[1].resp.kind # "raise") =>
          /\ exc = None
          /\ Len(sent) = 1
          /\ ret = <<IF sent[1].resp.kind = "noresult" THEN {} ELSE sent[1].resp.val>>

\* C12 witness: generate_plotly_code got a response without a result and
\* returned None.
C12_Witness ==
    /\ op = "generate_plotly_code" /\ Len(sent) = 1
    /\ sent[1].resp.kind = "noresult"
    /\ exc = None /\ ret = <<None>>

\* The positions in sent of the requests of a method.
Requested(method) == {i \in DOMAIN sent : sent[i].method = method}

\* The send_otp request of the last call got no result, or a status that
\* reports failure.
SendOtpFailed ==
    \E i \in Requested("send_otp") :
        \/ sent[i].resp.kind = "noresult"
        \/ sent[i].resp.kind = "ok" /\ sent[i].resp.val # True

\* C13: in get_api_key, VANNA_API_KEY unset and the email not the
\* placeholder, send_otp is requested exactly when no otp_code was given;
\* verify_otp is requested only after otp_code was given or send_otp reported
\* success; and when send_otp fails OtpCodeError is raised, nothing is read
\* from the prompt and verify_otp is not requested.
C13_OtpOrder ==
    (op = "get_api_key" /\ arg[3] = None /\ arg[1] # PlaceholderEmail) =>
        /\ (Requested("send_otp") # {}) <=> (arg[2] = None)
        /\ \A v \in Requested("verify_otp") :
              \/ arg[2] # None
              \/ \E i \in Requested("send_otp") :
                    i < v /\ sent[i].resp = Resp("ok", True)
        /\ SendOtpFailed =>
              /\ exc = "OtpCodeError"
              /\ prompted = <<>>
              /\ Requested("verify_otp") = {}

\* C13 witness: send_otp reported success, the code was read from the prompt
\* and verify_otp was requested with it.
C13_Witness ==
    /\ op = "get_api_key" /\ arg[3] = None /\ arg[2] = None
    /\ Len(sent) = 2
    /\ sent[1].method = "send_otp" /\ sent[1].resp = Resp("ok", True)
    /\ sent[2].method = "verify_otp" /\ sent[2].data[2] = prompted[1]
    /\ exc = None

\* C14: when run_sql is unset and query generation did not raise, ask returns
\* (sql, None, None, None) and has posted the generate_sql_from_question
\* request and nothing else; no later stage was invoked.
C14_NoRunSqlStopsAfterGenerate ==
    (/\ op = "ask" /\ run_sql = NoRunSql
     /\ calls # <<>> /\ calls[1].out = "returned") =>
        /\ exc = None
        /\ ret = <<calls[1].val, None, None, None>>
        /\ Len(calls) = 1
        /\ Len(sent) = 1
        /\ sent[1].method = "generate_sql_from_question"

\* C14 witness: ask generated SQL with run_sql unset and returned it alone.
C14_Witness ==
    /\ op = "ask" /\ run_sql = NoRunSql
    /\ Len(calls) = 1 /\ calls[1].out = "returned" /\ calls[1].val \in Sqls
    /\ ret = <<calls[1].val, None, None, None>>

====
